---- MODULE Spec2Model ----
(***************************************************************************)
(* Model of app.py: a Streamlit front-end that provisions an assistant     *)
(* from a knowledge text (build_custom_assistant), relays chat messages to *)
(* it (handle_conversation, a polling loop over the remote run's status)   *)
(* and executes the assistant's send_email tool calls against a local log  *)
(* (simulate_email_sending).                                               *)
(*                                                                         *)
(* st.session_state is the group of variables assistant_id,                *)
(* knowledge_base, conversation_thread, conversation_history,              *)
(* email_history, saved_emails.  The remote service is agents, threads and *)
(* job.  One script run handles one widget event; handle_conversation is   *)
(* split at its remote round trips (pc).                                   *)
(***************************************************************************)
EXTENDS Integers, Sequences, FiniteSets, TLC

\* ------------------------------------------------------------------ bounds
MaxMsgs == 2      \* chat messages entered in one session
MaxAgents == 2    \* assistants the remote service creates in one session
MaxCalls == 2     \* tool calls the relay is handed in one session

\* ------------------------------------------------------------ input values
\* Python's None; an optional value v is <<v>>.
None == <<>>

Whitespace == {" ", "\t", "\n"}

\* Texts typed into the knowledge text area, as sequences of characters.
KnowledgeTexts ==
    { <<>>, <<" ", " ", " ">>, <<"x">> }

\* Values of the sidebar's e-mail text input.
UserEmails == {"", "user@example.com"}

\* Texts entered in the chat input (st.chat_input never returns "").
UserTexts == {"hi"}

\* Text of the message the assistant adds when a run completes.
Replies == {"ok"}

Recipients == {"a@b.com", "c@d.com"}

\* The arguments of a tool call are a JSON object, modelled as the list of
\* its members <<key, value>>.  SchemaArgs follow EMAIL_FUNCTION_SCHEMA;
\* ParamArgs use the parameter names of simulate_email_sending.
SchemaArgs ==
    { << <<"to", "a@b.com">>, <<"subject", "S">>, <<"body", "B">> >> }

ParamArgs ==
    { << <<"recipient", r>>, <<"subject", "S">>, <<"message_body", "B">> >> :
        r \in Recipients }

\* name and arguments of the tool calls the remote run may request
ToolCallKinds ==
    { [name |-> "send_email", arguments |-> a] : a \in SchemaArgs \cup ParamArgs }
    \cup { [name |-> "lookup", arguments |-> <<>>] }

RECURSIVE SeqsUpTo(_, _)
SeqsUpTo(S, n) ==
    IF n = 0 THEN { <<>> }
    ELSE LET shorter == SeqsUpTo(S, n - 1)
         IN  shorter \cup { Append(s, x) : s \in shorter, x \in S }

\* Contents of one requires_action pause: one or more tool calls.
Batches == SeqsUpTo(ToolCallKinds, MaxCalls) \ { <<>> }

\* ---------------------------------------------------------------- statuses
RunningStatuses == {"queued", "in_progress"}
FailedStatuses == {"failed", "cancelled", "expired"}
TerminalStatuses == FailedStatuses \cup {"completed"}

\* ------------------------------------------------------------------- state
VARIABLES
    \* st.session_state
    assistant_id,          \* None or <<id>>
    knowledge_base,        \* text of the saved context
    conversation_thread,   \* None or <<thread id>>
    conversation_history,  \* displayed transcript: <<role, text>> entries
    email_history,         \* the email log
    saved_emails,          \* saved contact addresses
    \* user-visible st.error / st.warning / st.success of the current run
    notice,
    \* remote service
    agents,                \* agents[i]: knowledge text of assistant i
    threads,               \* threads[t]: messages of thread t, oldest first
    job,                   \* the run started by the current call, or NoJob
    \* handle_conversation / render_chat_section locals
    pc,
    user_input,
    thread_local,          \* handle_conversation's conversation_thread
    function_calls,
    function_results,
    idx,                   \* position of the for loop in function_calls
    retval,                \* <<response, thread_id>> returned to the caller
    \* history of the current call
    paused,                \* a poll of this call has observed requires_action
    script,                \* how far the polls have followed Scenario (below)
    submits,               \* submit_tool_outputs calls the service accepted
    executed,              \* ids of the calls simulate_email_sending ran for
    listed,                \* messages.list was called
    raised,                \* exception caught at line 161, "" if none
    logAtStart,            \* email log when the call started
    threadAtStart,         \* conversation_thread passed to the call
    \* history of the session
    threadAgent,           \* threadAgent[t]: assistant current when t was created
    callsSeen              \* tool calls handed to the relay so far

session == <<assistant_id, knowledge_base, conversation_thread,
             conversation_history, email_history, saved_emails>>
remote == <<agents, threads, job>>
locals == <<pc, user_input, thread_local, function_calls, function_results,
            idx, retval>>
callHistory == <<paused, script, submits, executed, listed, raised, logAtStart,
                 threadAtStart>>
sessionHistory == <<threadAgent, callsSeen>>
vars == <<session, notice, remote, locals, callHistory, sessionHistory>>

Last(s) == s[Len(s)]

RECURSIVE Reverse(_)
Reverse(s) == IF s = <<>> THEN <<>> ELSE Append(Reverse(Tail(s)), Head(s))

\* Python truthiness of an Optional[str].
Truthy(v) == v # None /\ v[1] # ""

\* no run has been started by the current call
NoJob == [status |-> "none", calls |-> <<>>]

Init ==
    /\ assistant_id = None
    /\ knowledge_base = <<>>
    /\ conversation_thread = None
    /\ conversation_history = <<>>
    /\ email_history = <<>>
    /\ saved_emails = <<>>
    /\ notice = ""
    /\ agents = <<>>
    /\ threads = <<>>
    /\ job = NoJob
    /\ pc = "idle"
    /\ user_input = ""
    /\ thread_local = None
    /\ function_calls = <<>>
    /\ function_results = <<>>
    /\ idx = 1
    /\ retval = <<None, None>>
    /\ paused = FALSE
    /\ script = "start"
    /\ submits = 0
    /\ executed = {}
    /\ listed = FALSE
    /\ raised = ""
    /\ logAtStart = <<>>
    /\ threadAtStart = None
    /\ threadAgent = <<>>
    /\ callsSeen = 0

\* ------------------------------------------------------------ render_sidebar
\* "Save Email" with user_email in the text input.
SaveEmail(user_email) ==
    /\ pc = "idle"
    /\ user_email # ""
    /\ IF \A i \in 1..Len(saved_emails) : saved_emails[i] # user_email
       THEN /\ saved_emails' = Append(saved_emails, user_email)
            /\ notice' = "Email saved!"
       ELSE /\ saved_emails' = saved_emails
            /\ notice' = ""
    /\ UNCHANGED <<assistant_id, knowledge_base, conversation_thread,
                   conversation_history, email_history>>
    /\ UNCHANGED <<remote, locals, callHistory, sessionHistory>>

\* --------------------------------------------------- render_knowledge_section
RECURSIVE lstrip(_)
lstrip(s) ==
    IF s # <<>> /\ Head(s) \in Whitespace THEN lstrip(Tail(s)) ELSE s

\* str.strip(): leading and trailing whitespace removed.
strip(s) == Reverse(lstrip(Reverse(lstrip(s))))

HasContentNoStrip(knowledge_content) == knowledge_content # <<>>

\* the guard `if knowledge_content.strip():`
HasContent(knowledge_content) == strip(knowledge_content) # <<>>

\* build_custom_assistant: the create call returns an id (created) or raises.
build_custom_assistant(knowledge_base_arg, created) ==
    IF created
    THEN [id |-> <<Len(agents) + 1>>,
          agents |-> Append(agents, knowledge_base_arg),
          error |-> ""]
    ELSE [id |-> None,
          agents |-> agents,
          error |-> "Failed to create assistant"]

AfterBuildAlwaysReset(new_id, knowledge_content, error) ==
    IF new_id # None
    THEN [assistant_id |-> new_id, knowledge_base |-> knowledge_content,
          conversation_thread |-> None, notice |-> "Context saved successfully!"]
    ELSE [assistant_id |-> assistant_id, knowledge_base |-> knowledge_base,
          conversation_thread |-> None, notice |-> error]

\* `if assistant_id:` and the three session assignments under it
AfterBuild(new_id, knowledge_content, error) ==
    IF new_id # None
    THEN [assistant_id |-> new_id, knowledge_base |-> knowledge_content,
          conversation_thread |-> None, notice |-> "Context saved successfully!"]
    ELSE [assistant_id |-> assistant_id, knowledge_base |-> knowledge_base,
          conversation_thread |-> conversation_thread, notice |-> error]

\* "Save Context" with knowledge_content in the text area.
SaveContext(knowledge_content, created) ==
    /\ pc = "idle"
    /\ created => Len(agents) < MaxAgents
    /\ IF HasContent(knowledge_content)
       THEN LET built == build_custom_assistant(knowledge_content, created)
                after == AfterBuild(built.id, knowledge_content, built.error)
            IN  /\ agents' = built.agents
                /\ assistant_id' = after.assistant_id
                /\ knowledge_base' = after.knowledge_base
                /\ conversation_thread' = after.conversation_thread
                /\ notice' = after.notice
       ELSE /\ notice' = "Please add some knowledge content first!"
            /\ UNCHANGED <<agents, assistant_id, knowledge_base,
                           conversation_thread>>
    /\ UNCHANGED <<conversation_history, email_history, saved_emails>>
    /\ UNCHANGED <<threads, job, locals, callHistory, threadAgent, callsSeen>>

\* -------------------------------------------------------- render_chat_section
UserTurns == Len(SelectSeq(conversation_history, LAMBDA e : e[1] = "user"))

\* A chat message is entered: the transcript gets the user turn and
\* handle_conversation is entered with the session's conversation_thread.
ChatInput(user_message) ==
    /\ pc = "idle"
    /\ assistant_id # None
    /\ UserTurns < MaxMsgs
    /\ conversation_history' = Append(conversation_history, <<"user", user_message>>)
    /\ user_input' = user_message
    /\ thread_local' = conversation_thread
    /\ pc' = IF conversation_thread = None THEN "create" ELSE "post"
    /\ notice' = ""
    /\ logAtStart' = email_history
    /\ threadAtStart' = conversation_thread
    /\ UNCHANGED <<assistant_id, knowledge_base, conversation_thread,
                   email_history, saved_emails>>
    /\ UNCHANGED <<remote, function_calls, function_results, idx, retval>>
    /\ UNCHANGED <<paused, script, submits, executed, listed, raised,
                   threadAgent, callsSeen>>

\* --------------------------------------------------------- handle_conversation
\* `except Exception as error:` st.error and return None, conversation_thread
Raise(what) ==
    /\ raised' = what
    /\ notice' = "Conversation error"
    /\ retval' = <<None, thread_local>>
    /\ pc' = "ret"

\* threads.create()
CreateThread(ok) ==
    /\ pc = "create"
    /\ IF ok
       THEN /\ threads' = Append(threads, <<>>)
            /\ threadAgent' = Append(threadAgent, assistant_id[1])
            /\ thread_local' = <<Len(threads) + 1>>
            /\ pc' = "post"
            /\ UNCHANGED <<raised, notice, retval>>
       ELSE /\ Raise("threads.create")
            /\ UNCHANGED <<threads, threadAgent, thread_local>>
    /\ UNCHANGED <<session, agents, job, user_input, function_calls,
                   function_results, idx>>
    /\ UNCHANGED <<paused, script, submits, executed, listed, logAtStart,
                   threadAtStart, callsSeen>>

\* threads.messages.create(role="user")
PostMessage(ok) ==
    /\ pc = "post"
    /\ IF ok
       THEN /\ threads' = [threads EXCEPT ![thread_local[1]] =
                               Append(@, <<"user", user_input>>)]
            /\ pc' = "run"
            /\ UNCHANGED <<raised, notice, retval>>
       ELSE /\ Raise("messages.create")
            /\ UNCHANGED threads
    /\ UNCHANGED <<session, agents, job, user_input, thread_local,
                   function_calls, function_results, idx>>
    /\ UNCHANGED <<paused, script, submits, executed, listed, logAtStart,
                   threadAtStart, sessionHistory>>

\* threads.runs.create()
StartRun(ok) ==
    /\ pc = "run"
    /\ IF ok
       THEN /\ job' = [status |-> "queued", calls |-> <<>>]
            /\ pc' = "poll"
            /\ UNCHANGED <<raised, notice, retval>>
       ELSE /\ Raise("runs.create")
            /\ UNCHANGED job
    /\ UNCHANGED <<session, agents, threads, user_input, thread_local,
                   function_calls, function_results, idx>>
    /\ UNCHANGED <<paused, script, submits, executed, listed, logAtStart,
                   threadAtStart, sessionHistory>>

\* The tool calls of a pause with the ids the service gives them.
WithIds(batch) ==
    [i \in 1..Len(batch) |->
        [id |-> callsSeen + i, name |-> batch[i].name,
         arguments |-> batch[i].arguments]]

\* A pause can be observed while the session's tool calls are within bound.
Room(calls) == callsSeen + Len(calls) <= MaxCalls

\* The states the remote run may be in at the next retrieve.  A run that is
\* waiting for tool outputs stays in requires_action with the same calls
\* until it gets all of them or ends.
NextJobs ==
    IF job.status \in RunningStatuses
    THEN { [job EXCEPT !.status = s] :
             s \in (IF job.status = "queued" THEN RunningStatuses
                    ELSE {"in_progress"}) \cup TerminalStatuses }
         \cup { [status |-> "requires_action", calls |-> WithIds(b)] :
                  b \in { x \in Batches : Room(x) } }
    ELSE IF job.status = "requires_action"
    THEN { [job EXCEPT !.status = s] : s \in FailedStatuses }
         \cup { j \in {job} : Room(job.calls) }
    ELSE {job}

\* Scenario: running (one or more polls), requires_action with the single
\* call send_email(to, subject, body), running, completed.  ScriptStep is
\* the position in it after one more observed status, "off" once the polls
\* have left it.
IsScenarioPause(calls) ==
    /\ Len(calls) = 1
    /\ calls[1].name = "send_email"
    /\ calls[1].arguments \in SchemaArgs

ScriptStep(position, status, calls) ==
    LET running == status \in RunningStatuses
    IN  IF position \in {"start", "running1"} /\ running THEN "running1"
        ELSE IF position = "running1" /\ status = "requires_action"
                /\ IsScenarioPause(calls) THEN "paused"
        ELSE IF position \in {"paused", "running2"} /\ running THEN "running2"
        ELSE IF position = "running2" /\ status = "completed" THEN "completed"
        ELSE "off"

StatusBranchExpiredIgnored(status) ==
    IF status = "completed" THEN "list"
    ELSE IF status = "requires_action" THEN "dispatch"
    ELSE IF status \in {"failed", "cancelled"} THEN "ret"
    ELSE "sleep"

StatusBranchNoBreak(status) ==
    IF status = "requires_action" THEN "dispatch"
    ELSE IF status \in FailedStatuses THEN "ret"
    ELSE "sleep"

\* the if / elif chain on current_run.status: where control goes next
StatusBranch(status) ==
    IF status = "completed" THEN "list"
    ELSE IF status = "requires_action" THEN "dispatch"
    ELSE IF status \in FailedStatuses THEN "ret"
    ELSE "sleep"

\* threads.runs.retrieve() and the branch on the status it returns.
\* next is the run as the service reports it; reply is the message the
\* assistant adds to the thread when the run completes.
Poll(ok, next, reply) ==
    /\ pc = "poll"
    /\ IF ok
       THEN /\ next \in NextJobs
            /\ job' = next
            /\ threads' = IF next.status = "completed" /\ job.status # "completed"
                          THEN [threads EXCEPT ![thread_local[1]] =
                                    Append(@, <<"assistant", reply>>)]
                          ELSE threads
            /\ paused' = (paused \/ next.status = "requires_action")
            /\ script' = ScriptStep(script, next.status, next.calls)
            /\ callsSeen' = IF next.status = "requires_action"
                            THEN callsSeen + Len(next.calls) ELSE callsSeen
            /\ pc' = StatusBranch(next.status)
            /\ IF StatusBranch(next.status) = "dispatch"
               THEN /\ function_calls' = next.calls
                    /\ function_results' = <<>>
                    /\ idx' = 1
               ELSE UNCHANGED <<function_calls, function_results, idx>>
            /\ IF StatusBranch(next.status) = "ret"
               THEN /\ notice' = "Assistant run failed"
                    /\ retval' = <<None, thread_local>>
               ELSE UNCHANGED <<notice, retval>>
            /\ UNCHANGED raised
       ELSE /\ Raise("runs.retrieve")
            /\ UNCHANGED <<job, threads, paused, script, callsSeen,
                           function_calls, function_results, idx>>
    /\ UNCHANGED <<session, agents, user_input, thread_local>>
    /\ UNCHANGED <<submits, executed, listed, logAtStart, threadAtStart,
                   threadAgent>>

\* json.loads of an argument object: the dict of its members (a later
\* member wins over an earlier one with the same key).
json_loads(members) ==
    LET keys == { members[i][1] : i \in 1..Len(members) }
        last(k) == CHOOSE i \in 1..Len(members) :
                      /\ members[i][1] = k
                      /\ \A j \in 1..Len(members) : members[j][1] = k => j <= i
    IN  [k \in keys |-> members[last(k)][2]]

\* parameters of simulate_email_sending(recipient, subject, message_body)
HandlerParams == {"recipient", "subject", "message_body"}

\* simulate_email_sending(**args) binds by keyword: the call is made when the
\* keys of args are exactly the parameter names, and is a TypeError otherwise.
Binds(args) == DOMAIN args = HandlerParams

simulate_email_sending_dedup(log, recipient, subject, message_body) ==
    LET email_record == [recipient |-> recipient, subject |-> subject,
                         body |-> message_body]
    IN  [email_history |->
             IF \E i \in 1..Len(log) : log[i] = email_record
             THEN log ELSE Append(log, email_record),
         result |-> <<"Email successfully sent to ", recipient>>]

\* simulate_email_sending: the log with the record appended, and the
\* confirmation string f"Email successfully sent to {recipient}".  The
\* record's sent_at (a wall clock reading) is left out.
simulate_email_sending(log, recipient, subject, message_body) ==
    LET email_record == [recipient |-> recipient, subject |-> subject,
                         body |-> message_body]
    IN  [email_history |-> Append(log, email_record),
         result |-> <<"Email successfully sent to ", recipient>>]

\* One iteration of `for call in function_calls`.
Dispatch ==
    /\ pc = "dispatch"
    /\ idx <= Len(function_calls)
    /\ LET call == function_calls[idx]
           args == json_loads(call.arguments)
       IN  IF call.name = "send_email"
           THEN IF Binds(args)
                THEN LET sent == simulate_email_sending(email_history,
                                     args["recipient"], args["subject"],
                                     args["message_body"])
                     IN  /\ email_history' = sent.email_history
                         /\ function_results' = Append(function_results,
                                [tool_call_id |-> call.id, output |-> sent.result])
                         /\ executed' = executed \cup {call.id}
                         /\ idx' = idx + 1
                         /\ pc' = IF idx = Len(function_calls)
                                  THEN "submit" ELSE "dispatch"
                         /\ UNCHANGED <<raised, notice, retval>>
                ELSE /\ Raise("TypeError")
                     /\ UNCHANGED <<email_history, function_results, idx,
                                    executed>>
           ELSE /\ idx' = idx + 1
                /\ pc' = IF idx = Len(function_calls) THEN "submit" ELSE "dispatch"
                /\ UNCHANGED <<email_history, function_results, raised, notice,
                               retval, executed>>
    /\ UNCHANGED <<assistant_id, knowledge_base, conversation_thread,
                   conversation_history, saved_emails>>
    /\ UNCHANGED <<remote, user_input, thread_local, function_calls>>
    /\ UNCHANGED <<paused, script, submits, listed, logAtStart, threadAtStart,
                   sessionHistory>>

\* the outputs cover every call the run is waiting for
Complete(outputs, calls) ==
    /\ Len(outputs) = Len(calls)
    /\ \A i \in 1..Len(calls) : outputs[i].tool_call_id = calls[i].id

\* threads.runs.submit_tool_outputs(tool_outputs=function_results).  The
\* service takes a complete set of outputs and resumes the run; given an
\* incomplete set it either refuses the call (ok = FALSE) or keeps waiting.
\* function_calls, function_results and idx are assigned anew before they
\* are read again, and are cleared here.
Submit(ok) ==
    /\ pc = "submit"
    /\ IF ok
       THEN /\ submits' = submits + 1
            /\ job' = IF Complete(function_results, job.calls)
                      THEN [status |-> "queued", calls |-> <<>>]
                      ELSE job
            /\ function_calls' = <<>>
            /\ function_results' = <<>>
            /\ idx' = 1
            /\ pc' = "sleep"
            /\ UNCHANGED <<raised, notice, retval>>
       ELSE /\ Raise("runs.submit_tool_outputs")
            /\ UNCHANGED <<submits, job, function_calls, function_results, idx>>
    /\ UNCHANGED <<session, agents, threads, user_input, thread_local>>
    /\ UNCHANGED <<paused, script, executed, listed, logAtStart,
                   threadAtStart, sessionHistory>>

\* time.sleep(1) at the end of a loop iteration
Sleep ==
    /\ pc = "sleep"
    /\ pc' = "poll"
    /\ UNCHANGED <<session, notice, remote, user_input, thread_local,
                   function_calls, function_results, idx, retval,
                   callHistory, sessionHistory>>

\* messages.data of threads.messages.list(): newest message first
list_messages(thread_id) == Reverse(threads[thread_id])

\* latest_response.content[0].text.value of messages.data[0]
latest_response(data) == data[1][2]

\* threads.messages.list() after the loop, and the return of the reply
ListMessages(ok) ==
    /\ pc = "list"
    /\ IF ok
       THEN /\ listed' = TRUE
            /\ retval' = << <<latest_response(list_messages(thread_local[1]))>>,
                            thread_local >>
            /\ pc' = "ret"
            /\ UNCHANGED <<raised, notice>>
       ELSE /\ Raise("messages.list")
            /\ UNCHANGED listed
    /\ UNCHANGED <<session, remote, user_input, thread_local, function_calls,
                   function_results, idx>>
    /\ UNCHANGED <<paused, script, submits, executed, logAtStart,
                   threadAtStart, sessionHistory>>

\* render_chat_section after the call: `if response:` keeps the thread id
\* and shows the reply.  The script run ends: the locals of the call and
\* the history kept for it are dropped.
Finish ==
    /\ pc = "ret"
    /\ LET response == retval[1]
           thread_id == retval[2]
       IN  IF Truthy(response)
           THEN /\ conversation_thread' = thread_id
                /\ conversation_history' =
                       Append(conversation_history, <<"assistant", response[1]>>)
           ELSE UNCHANGED <<conversation_thread, conversation_history>>
    /\ pc' = "idle"
    /\ user_input' = ""
    /\ thread_local' = None
    /\ function_calls' = <<>>
    /\ function_results' = <<>>
    /\ idx' = 1
    /\ retval' = <<None, None>>
    /\ job' = NoJob
    /\ paused' = FALSE
    /\ script' = "start"
    /\ submits' = 0
    /\ executed' = {}
    /\ listed' = FALSE
    /\ raised' = ""
    /\ logAtStart' = <<>>
    /\ threadAtStart' = None
    /\ UNCHANGED <<assistant_id, knowledge_base, email_history, saved_emails>>
    /\ UNCHANGED <<notice, agents, threads, sessionHistory>>

\* ------------------------------------------------------------ specification
Next ==
    \/ \E e \in UserEmails : SaveEmail(e)
    \/ \E k \in KnowledgeTexts, created \in BOOLEAN : SaveContext(k, created)
    \/ \E m \in UserTexts : ChatInput(m)
    \/ \E ok \in BOOLEAN : CreateThread(ok)
    \/ \E ok \in BOOLEAN : PostMessage(ok)
    \/ \E ok \in BOOLEAN : StartRun(ok)
    \/ \E ok \in BOOLEAN, next \in NextJobs, reply \in Replies : Poll(ok, next, reply)
    \/ Dispatch
    \/ \E ok \in BOOLEAN : Submit(ok)
    \/ Sleep
    \/ \E ok \in BOOLEAN : ListMessages(ok)
    \/ Finish

Spec == Init /\ [][Next]_vars

\* A session in which "Save Context" has succeeded once (SaveContext(<<"x">>,
\* TRUE) from Init), used from then on for chat only.
InitSaved ==
    /\ assistant_id = <<1>>
    /\ knowledge_base = <<"x">>
    /\ conversation_thread = None
    /\ conversation_history = <<>>
    /\ email_history = <<>>
    /\ saved_emails = <<>>
    /\ notice = "Context saved successfully!"
    /\ agents = << <<"x">> >>
    /\ threads = <<>>
    /\ job = NoJob
    /\ pc = "idle"
    /\ user_input = ""
    /\ thread_local = None
    /\ function_calls = <<>>
    /\ function_results = <<>>
    /\ idx = 1
    /\ retval = <<None, None>>
    /\ paused = FALSE
    /\ script = "start"
    /\ submits = 0
    /\ executed = {}
    /\ listed = FALSE
    /\ raised = ""
    /\ logAtStart = <<>>
    /\ threadAtStart = None
    /\ threadAgent = <<>>
    /\ callsSeen = 0

\* the steps of one handle_conversation call and of its caller
CallStep ==
    \/ \E ok \in BOOLEAN : CreateThread(ok)
    \/ \E ok \in BOOLEAN : PostMessage(ok)
    \/ \E ok \in BOOLEAN : StartRun(ok)
    \/ \E ok \in BOOLEAN, next \in NextJobs, reply \in Replies : Poll(ok, next, reply)
    \/ Dispatch
    \/ \E ok \in BOOLEAN : Submit(ok)
    \/ Sleep
    \/ \E ok \in BOOLEAN : ListMessages(ok)
    \/ Finish

\* a poll that finds the run ended
PollTerminal ==
    \E next \in NextJobs, reply \in Replies :
        /\ next.status \in TerminalStatuses
        /\ Poll(TRUE, next, reply)

NextChat ==
    \/ \E m \in UserTexts : ChatInput(m)
    \/ CallStep

\* Chat under one assistant, with the scheduling the code has: every remote
\* call returns (each step of a call is taken) and the run ends (a poll
\* eventually reports a terminal status).
ChatSpec ==
    InitSaved /\ [][NextChat]_vars /\ WF_vars(CallStep) /\ SF_vars(PollTerminal)

\* ===================================================================== claims
IsPrefix(s, t) == Len(s) <= Len(t) /\ SubSeq(t, 1, Len(s)) = s

\* every character is whitespace (the empty text included)
AllWhitespace(text) == \A i \in 1..Len(text) : text[i] \in Whitespace

\* exceptions of the remote calls, as recorded by Raise
RemoteErrors ==
    {"threads.create", "messages.create", "runs.create", "runs.retrieve",
     "runs.submit_tool_outputs", "messages.list"}

\* the record a send_email call asks for: to, subject, body of its arguments
\* (recipient, message_body when the arguments use the handler's names)
ExpectedRecord(call) ==
    LET a == json_loads(call.arguments)
    IN  [recipient |-> IF "to" \in DOMAIN a THEN a["to"] ELSE a["recipient"],
         subject |-> a["subject"],
         body |-> IF "body" \in DOMAIN a THEN a["body"] ELSE a["message_body"]]

\* the conversation id a call works on: the one passed in, or the one it made
ExpectedThread ==
    IF threadAtStart # None THEN threadAtStart ELSE <<Len(threads)>>

\* C1: over the chat messages sent under one agent at most one conversation
\* is ever created (a conversation created by a call that then fails is kept
\* by the session and reused by the next message).
C1_OneConversationPerAgent ==
    \A a \in 1..Len(agents) :
        Cardinality({ t \in 1..Len(threads) : threadAgent[t] = a }) <= 1

\* C2: whenever the relay has observed requires_action, the for loop over the
\* requested calls ends in a submit-outputs call whose batch holds one output
\* for every requested invocation, whatever their names.
C2_FullBatchSubmitted ==
    [][ (pc = "dispatch" /\ pc' # "dispatch")
          => (pc' = "submit" /\ Complete(function_results', function_calls)) ]_vars

\* C3: every send_email invocation handed to the relay is executed exactly
\* once: its record is appended at the end of the email log, and it has not
\* been executed before in this call.
C3_EachSendEmailRecordedOnce ==
    [][ (pc = "dispatch" /\ function_calls[idx].name = "send_email")
          => /\ function_calls[idx].id \notin executed
             /\ email_history' =
                    Append(email_history, ExpectedRecord(function_calls[idx])) ]_vars

\* C4: when the polls follow Scenario (running, requires_action with the
\* single call send_email(to, subject, body), running, completed) and no
\* remote call fails, the call appends exactly the record {to, subject,
\* body}, submits one batch of size 1 carrying the call's id, and returns
\* the newest message's text with the conversation id.
C4_ScenarioOutcome ==
    /\ [][ (pc = "dispatch" /\ script = "paused" /\ pc' # "dispatch")
             => /\ pc' = "submit"
                /\ function_results' =
                       << [tool_call_id |-> function_calls[1].id,
                           output |-> <<"Email successfully sent to ",
                                        ExpectedRecord(function_calls[1]).recipient>>] >>
                /\ email_history' =
                       Append(logAtStart, ExpectedRecord(function_calls[1])) ]_vars
    /\ [](  (pc = "ret" /\ script \in {"paused", "running2", "completed"}
                /\ raised \notin RemoteErrors)
             => /\ script = "completed"
                /\ Len(email_history) = Len(logAtStart) + 1
                /\ submits = 1
                /\ retval = << <<Last(threads[thread_local[1]])[2]>>, thread_local >> )

\* C5: a call whose run is seen failed, cancelled or expired before any
\* requires_action returns (None, conversation id) with the id passed in or
\* created by this call, leaves the email log as it was, has made no
\* submit-outputs call and has not fetched the message list.
C5_FailedRunReturnsNone ==
    (job.status \in FailedStatuses /\ ~paused)
        => /\ pc = "ret"
           /\ raised = ""
           /\ retval = <<None, ExpectedThread>>
           /\ ExpectedThread[1] \in 1..Len(threads)
           /\ email_history = logAtStart
           /\ submits = 0
           /\ executed = {}
           /\ ~listed

C5_Witness ==
    /\ pc = "ret"
    /\ job.status = "expired"
    /\ ~paused
    /\ threadAtStart = None
    /\ retval = <<None, <<Len(threads)>> >>

\* C6: a conversation is created only while the current agent has none (by
\* the first chat message after the agent was saved that gets one); every
\* run is started on that conversation, never on one created before the
\* agent was saved; and a successful save-context resets the session's
\* conversation id.
C6_ConversationLifecycle ==
    [][ /\ Len(threads') > Len(threads)
             => \A t \in 1..Len(threads) : threadAgent[t] # assistant_id[1]
        /\ (pc = "run" /\ pc' = "poll")
             => /\ threadAgent[thread_local[1]] = assistant_id[1]
                /\ \A t \in 1..(thread_local[1] - 1) :
                       threadAgent[t] # assistant_id[1]
        /\ Len(agents') > Len(agents) => conversation_thread' = None ]_vars

\* a step in which simulate_email_sending is called
HandlerCall ==
    /\ pc = "dispatch"
    /\ function_calls[idx].name = "send_email"
    /\ Binds(json_loads(function_calls[idx].arguments))

\* C7: the email log is append-only without deduplication: a call of the
\* send-email handler appends exactly one record {recipient, subject, body}
\* at the end, whatever the log holds, and no other step changes the log.
C7_LogAppendOnly ==
    [][ /\ IsPrefix(email_history, email_history')
        /\ IF HandlerCall
           THEN email_history' =
                    Append(email_history, ExpectedRecord(function_calls[idx]))
           ELSE email_history' = email_history ]_vars

C7_Witness ==
    /\ Len(email_history) >= 2
    /\ email_history[1] = email_history[2]
    /\ pc = "idle"

\* C8: save-context never creates an agent from an empty or whitespace-only
\* text: such a text gets the warning and no create call, a text with a
\* non-whitespace character is passed to the create call as it is, and so
\* every agent's text has a non-whitespace character.
C8_NoBlankAgent ==
    /\ [](\A i \in 1..Len(agents) : ~AllWhitespace(agents[i]))
    /\ [][ \A k \in KnowledgeTexts, created \in BOOLEAN :
             SaveContext(k, created) =>
                IF AllWhitespace(k)
                THEN /\ agents' = agents
                     /\ notice' = "Please add some knowledge content first!"
                     /\ UNCHANGED session
                ELSE /\ notice' # "Please add some knowledge content first!"
                     /\ created => agents' = Append(agents, k) ]_vars

C8_Witness ==
    /\ notice = "Please add some knowledge content first!"
    /\ Len(agents) >= 1
    /\ agents[1] = <<"x">>

\* C9: every call returns once the service answers and the run ends; a poll
\* that sees a status other than completed, failed, cancelled, expired goes
\* on to another poll after one sleep; the message list is fetched, and a
\* reply returned, only after a poll has seen completed.
C9_CallTerminates ==
    /\ (pc # "idle") ~> (pc = "idle")
    /\ [](pc = "list" => job.status = "completed")
    /\ [](retval[1] # None => (listed /\ job.status = "completed"))
    /\ [][ /\ (pc = "poll" /\ raised' = "" /\ job'.status \notin TerminalStatuses)
                => pc' \in {"sleep", "dispatch"}
           /\ pc = "sleep" => pc' = "poll"
           /\ (listed' /\ ~listed) => job.status = "completed" ]_vars

C9_Witness ==
    /\ pc = "ret"
    /\ retval[1] # None
    /\ paused
    /\ submits >= 1

\* C10: a failed create_agent surfaces an error and the save-context action
\* changes nothing in the session; the agent id is replaced and the
\* conversation id reset only by a successful creation.
C10_FailedSaveChangesNothing ==
    /\ [][ \A k \in KnowledgeTexts :
             (SaveContext(k, FALSE) /\ ~AllWhitespace(k))
                => /\ notice' = "Failed to create assistant"
                   /\ agents' = agents
                   /\ UNCHANGED session ]_vars
    /\ [][ (assistant_id' # assistant_id
              \/ (conversation_thread # None /\ conversation_thread' = None))
             => /\ Len(agents') = Len(agents) + 1
                /\ assistant_id' = <<Len(agents')>>
                /\ conversation_thread' = None ]_vars

C10_Witness ==
    /\ notice = "Failed to create assistant"
    /\ assistant_id # None
    /\ conversation_thread # None
    /\ Len(agents) = 1

====
